---- MODULE Spec2Model ----
(***************************************************************************)
(* Urban air-quality ETL pipeline: run_pipeline.py (orchestrator),         *)
(* extract.py (retrying fetch + raw writer) and load.py (batch loader).    *)
(* transform.py and etl_analysis.py are run by the orchestrator as         *)
(* subprocesses whose only observable result is their exit code.           *)
(***************************************************************************)
EXTENDS Integers, Sequences, FiniteSets, TLC

\* ---------------------------------------------------------------- bounds
NumCities == 2          \* length of the prefix of CITIES that is configured
MaxTick   == 2          \* the wall clock runs through ticks 0..MaxTick
MaxRuns   == 2          \* stand-alone launches of extract.py
MaxRows   == 3          \* rows in a staged dataset
MaxBatch  == 2          \* batch_size values 1..MaxBatch
MaxStaged == 2          \* staged files present in data/staged
MaxValue  == 2          \* distinct non-null values of a staged column

\* ------------------------------------------------------ program constants
MAX_RETRIES    == 3     \* extract.py:26
MaxLoadRetries == 2     \* load.py:97  (while retries <= 2)
TicksPerSecond == 2     \* extract.py:63: instants told apart within one
                        \* second of the "%Y%m%d_%H%M%S" stamp
NoCode         == -1    \* a process that has not exited has no return code

CITIES == <<"Delhi", "Mumbai", "Bengaluru", "Hyderabad", "Kolkata">>

Lower == [c \in {CITIES[k] : k \in 1..Len(CITIES)} |->
            CASE c = "Delhi"     -> "delhi"
              [] c = "Mumbai"    -> "mumbai"
              [] c = "Bengaluru" -> "bengaluru"
              [] c = "Hyderabad" -> "hyderabad"
              [] c = "Kolkata"   -> "kolkata"]

Cities == {CITIES[k] : k \in 1..NumCities}

STAGES == <<"Extract", "Transform", "Load", "Analyze">>

Stages == {STAGES[k] : k \in 1..Len(STAGES)}

StageNo(s) == CHOOSE k \in 1..Len(STAGES) : STAGES[k] = s

\* the payload with a non-empty "hourly" series that the API returns for
\* city c to the run-th launch of extract.py
Payload(c, run) == <<c, run>>

\* content of a path at which no file exists
NoFile == <<>>

\* content of a file that open(filename, "w") created or emptied and into
\* which json.dump did not write the whole payload
Truncated == <<"truncated">>

\* the None that fetch_air_quality_data returns
None == <<>>

\* datetime.now().strftime("%Y%m%d_%H%M%S"): the instant truncated to seconds
Timestamp(t) == t \div TicksPerSecond

\* RAW_DIR / f"{city.lower()}_raw_{timestamp}.json"
RawPath(c, t) == <<Lower[c], Timestamp(t)>>

RawPaths == {<<Lower[c], s>> : c \in Cities, s \in 0..Timestamp(MaxTick)}

VARIABLES
    \* run_pipeline.py
    opc,          \* "off" | "waiting" (inside subprocess.run) | "Done" | "Failed"
    ostage,       \* index in STAGES of the script being run
    invoked,      \* scripts handed to subprocess.run, in order
    rcs,          \* result.returncode seen by run_script, per stage
    console,      \* what the orchestrator printed
    \* processes
    proc,         \* per stage script: "off" | "spawned" | "running" | "exited"
    exitCode,     \* per stage script: exit status, NoCode while not exited
    \* extract.py
    epc,          \* "idle" | "request" | "save"
    cityIdx,      \* position of the for loop over cities.items()
    attempt,      \* attempt of the for loop in fetch_air_quality_data
    data,         \* the payload returned by the fetch of the current city
    hist,         \* per city: outcomes of the requests made in this run
    sleeps,       \* per city: time.sleep(2) calls made in this run
    saved_files,  \* saved_files of extract_air_quality_data_for_cities
    werr,         \* index of the city whose write raised, 0 if none
    elog,         \* final log line of extract.py: "none" | "info" | "warning"
    runs,         \* launches of extract.py so far
    clock,        \* the instant datetime.now() last returned, in ticks
    files,        \* data/raw: path -> content
    \* load.py
    lpc,          \* "idle" | "insert"
    env,          \* which of SUPABASE_URL / SUPABASE_KEY the environment sets
    staged,       \* staged_files: the sorted listing of data/staged
    records,      \* df.to_dict(orient="records")
    batch_size,
    i,            \* offset of the for loop over range(0, total, batch_size)
    retries,
    inserted,
    calls,        \* insert(...).execute() calls made: batch number, rows, outcome
    llog,         \* lines printed by load.py
    \* load.py, one row on its way from the staged file to the insert payload
    npc,          \* "off" | "read" | "frame" | "records"
    csv,          \* the row as the staged file holds it: column -> cell
    frame         \* the row in df, then in records: column -> value

ovars == <<opc, ostage, invoked, rcs, console>>
pvars == <<proc, exitCode>>
evars == <<epc, cityIdx, attempt, data, hist, sleeps, saved_files, werr, elog>>
fvars == <<runs, clock, files>>
nvars == <<npc, csv, frame>>
lvars == <<lpc, env, staged, records, batch_size, i, retries, inserted, calls, llog>>
vars  == <<ovars, pvars, evars, fvars, lvars, nvars>>

\* ------------------------------------------------------------------ Init
\* nothing has been launched; data/raw is empty
Init ==
    /\ opc = "off" /\ ostage = 0 /\ invoked = <<>> /\ console = <<>>
    /\ rcs = [s \in Stages |-> NoCode]
    /\ proc = [s \in Stages |-> "off"]
    /\ exitCode = [s \in Stages |-> NoCode]
    /\ epc = "idle" /\ cityIdx = 0 /\ attempt = 0 /\ data = None
    /\ hist = [c \in Cities |-> <<>>]
    /\ sleeps = [c \in Cities |-> 0]
    /\ saved_files = <<>> /\ werr = 0 /\ elog = "none"
    /\ runs = 0 /\ clock = 0
    /\ files = [p \in RawPaths |-> NoFile]
    /\ lpc = "idle" /\ env = [url |-> FALSE, key |-> FALSE]
    /\ staged = <<>> /\ records = <<>> /\ batch_size = 0
    /\ i = 0 /\ retries = 0 /\ inserted = 0 /\ calls = <<>> /\ llog = <<>>
    /\ npc = "off" /\ csv = <<>> /\ frame = <<>>

\* ------------------------------------------------------------ processes
\* a script leaves with this status; an uncaught exception or
\* SystemExit("message") gives 1, falling off the end of the script gives 0
Exit(s, code) ==
    /\ proc' = [proc EXCEPT ![s] = "exited"]
    /\ exitCode' = [exitCode EXCEPT ![s] = code]

\* ------------------------------------------------------------ extract.py
\* datetime.now(): the wall clock is read by save_air_quality_data only; any
\* time may have passed since it was last read
Now == clock..MaxTick

\* if __name__ == "__main__": extract_air_quality_data_for_cities(CITIES)
ExtractBegin ==
    /\ proc["Extract"] = "spawned"
    /\ proc' = [proc EXCEPT !["Extract"] = "running"]
    /\ epc' = "request" /\ cityIdx' = 1 /\ attempt' = 1 /\ data' = None
    /\ hist' = [c \in Cities |-> <<>>]
    /\ sleeps' = [c \in Cities |-> 0]
    /\ saved_files' = <<>> /\ werr' = 0 /\ elog' = "none"
    /\ UNCHANGED <<ovars, exitCode, fvars, lvars, nvars>>

\* faulty variant: a run that saved nothing ends with status 1
ExtractStatusStrict(sf) == IF sf = <<>> THEN 1 ELSE 0

\* the __main__ block logs what was saved, or a warning, and the script ends
ExtractStatus(sf) == 0

\* the for loop of extract_air_quality_data_for_cities moves on; after the
\* last city the function returns and the script logs and ends with status 0
NextCity(sf) ==
    IF cityIdx < NumCities
    THEN /\ cityIdx' = cityIdx + 1 /\ attempt' = 1 /\ epc' = "request"
         /\ elog' = elog
         /\ UNCHANGED pvars
    ELSE /\ epc' = "idle" /\ cityIdx' = cityIdx /\ attempt' = attempt
         /\ elog' = IF sf # <<>> THEN "info" ELSE "warning"
         /\ Exit("Extract", ExtractStatus(sf))

\* outcomes of requests.get + raise_for_status + json():
\*   "ok"     a payload whose "hourly" entry is non-empty
\*   "empty"  a payload without "hourly", or with an empty one
\*   "error"  a requests.exceptions.RequestException
Outcomes == {"ok", "empty", "error"}

\* faulty variant: an empty payload handled like a transport error
CaughtAlsoEmpty(outcome) == outcome \in {"error", "empty"}

\* except requests.exceptions.RequestException
Caught(outcome) == outcome = "error"

\* faulty variant: the last attempt of the budget is never made
MoreAttemptsShort(a) == a < MAX_RETRIES - 1

\* if attempt < retries
MoreAttempts(a) == a < MAX_RETRIES

\* one iteration of the for loop of fetch_air_quality_data
FetchAttempt(outcome) ==
    LET c == CITIES[cityIdx] IN
    /\ proc["Extract"] = "running" /\ epc = "request"
    /\ hist' = [hist EXCEPT ![c] = Append(@, outcome)]
    /\ CASE outcome = "ok" ->
              /\ data' = Payload(c, runs) /\ epc' = "save"
              /\ UNCHANGED <<cityIdx, attempt, sleeps, elog, pvars>>
         [] ~Caught(outcome) /\ outcome # "ok" ->
              /\ data' = None /\ sleeps' = sleeps
              /\ NextCity(saved_files)
         [] Caught(outcome) ->
              IF MoreAttempts(attempt)
              THEN /\ sleeps' = [sleeps EXCEPT ![c] = @ + 1]
                   /\ attempt' = attempt + 1
                   /\ UNCHANGED <<epc, cityIdx, data, elog, pvars>>
              ELSE /\ data' = None /\ sleeps' = sleeps
                   /\ NextCity(saved_files)
    /\ UNCHANGED <<ovars, saved_files, werr, fvars, lvars, nvars>>

\* save_air_quality_data succeeds and the path is appended to saved_files
SaveOk(now) ==
    LET c == CITIES[cityIdx]
        filename == RawPath(c, now)
        sf == Append(saved_files, filename) IN
    /\ proc["Extract"] = "running" /\ epc = "save"
    /\ files' = [files EXCEPT ![filename] = data]
    /\ saved_files' = sf
    /\ data' = None
    /\ clock' = now
    /\ NextCity(sf)
    /\ UNCHANGED <<ovars, hist, sleeps, werr, runs, lvars, nvars>>

\* save_air_quality_data raises OSError, either in open(filename, "w") or
\* later in json.dump: nothing catches it, the script dies with a traceback
SaveFail(now, at) ==
    LET filename == RawPath(CITIES[cityIdx], now) IN
    /\ proc["Extract"] = "running" /\ epc = "save"
    /\ clock' = now
    /\ files' = IF at = "dump" THEN [files EXCEPT ![filename] = Truncated]
                 ELSE files
    /\ werr' = cityIdx
    /\ epc' = "idle"
    /\ Exit("Extract", 1)
    /\ UNCHANGED <<ovars, cityIdx, attempt, data, hist, sleeps, saved_files,
                   elog, runs, lvars, nvars>>

\* the parent has collected the finished extract.py: the memory of the process
\* (loop positions, locals) is gone; its files and its captured log remain
Reaped ==
    /\ epc' = "idle" /\ cityIdx' = 0 /\ attempt' = 0 /\ data' = None
    /\ hist' = [c \in Cities |-> <<>>]
    /\ sleeps' = [c \in Cities |-> 0]
    /\ saved_files' = <<>> /\ werr' = 0
    /\ elog' = elog

\* `python extract.py` from the shell
ShellExtract ==
    /\ proc["Extract"] \in {"off", "exited"}
    /\ runs < MaxRuns
    /\ runs' = runs + 1
    /\ proc' = [proc EXCEPT !["Extract"] = "spawned"]
    /\ exitCode' = [exitCode EXCEPT !["Extract"] = NoCode]
    /\ Reaped
    /\ UNCHANGED <<ovars, clock, files, lvars, nvars>>

NextExtract ==
    \/ ShellExtract
    \/ ExtractBegin
    \/ \E o \in Outcomes : FetchAttempt(o)
    \/ \E now \in Now : SaveOk(now)
    \/ \E now \in Now, at \in {"open", "dump"} : SaveFail(now, at)

SpecExtract == Init /\ [][NextExtract]_vars

\* --------------------------------------------------------------- load.py
Min(a, b) == IF a < b THEN a ELSE b

Line(tag, a, b) == [tag |-> tag, a |-> a, b |-> b]

\* contents of data/staged: the air_quality_transformed*.csv files left by the
\* first n runs of transform.py, a name being the time of the run
StagedDirs == {1..n : n \in 0..MaxStaged}

\* sorted([...])
Sorted(S) == CHOOSE q \in [1..Cardinality(S) -> S] :
                 \A a, b \in 1..Cardinality(S) : a < b => q[a] < q[b]

Envs == [url : BOOLEAN, key : BOOLEAN]

\* a staged file without a header line: pd.read_csv raises EmptyDataError
NoColumns == -1

\* what pd.read_csv finds in the staged file: no header, or a header and rows
StagedContents == {NoColumns} \cup (0..MaxRows)

\* faulty variant: staged_files[0]
Oldest(q) == q[1]

\* staged_files[-1]
Latest(q) == q[Len(q)]

\* faulty variant: records[i:i + batch_size + 1]
BatchOverlapping(recs, off, B) == SubSeq(recs, off + 1, Min(off + B + 1, Len(recs)))

\* records[i:i + batch_size]
Batch(recs, off, B) == SubSeq(recs, off + 1, Min(off + B, Len(recs)))

\* (i // batch_size) + 1
BatchNumber(off, B) == (off \div B) + 1

\* the two prints that end load_to_supabase
LoadReport(ins, total) ==
    <<Line("COMPLETE", 0, 0), Line("STATS", ins, total)>>

\* faulty variant: the script exits non-zero unless every row was inserted
LoadStatusStrict(ins, total) == IF ins = total THEN 0 ELSE 1

\* load_to_supabase returns None whatever was inserted and nothing follows it
\* in the __main__ block: the script ends with status 0
LoadStatus(ins, total) == 0

\* module level code and the __main__ block of load.py up to the first insert
LoadBegin(e, dir, total, B) ==
    /\ proc["Load"] = "spawned"
    /\ env' = e /\ staged' = Sorted(dir)
    /\ i' = 0 /\ retries' = 0 /\ inserted' = 0 /\ calls' = <<>>
    /\ IF ~e.url \/ ~e.key
       THEN \* raise SystemExit("Please set SUPABASE_URL and SUPABASE_KEY ...")
            /\ records' = <<>> /\ batch_size' = 0 /\ llog' = <<>>
            /\ lpc' = "idle" /\ Exit("Load", 1)
       ELSE IF Sorted(dir) = <<>>
       THEN \* raise SystemExit("No air quality staged CSV found. ...")
            /\ records' = <<>> /\ batch_size' = 0 /\ llog' = <<>>
            /\ lpc' = "idle" /\ Exit("Load", 1)
       ELSE IF total = NoColumns
       THEN \* _read_staged_csv raises; nothing catches it
            /\ records' = <<>> /\ batch_size' = B /\ llog' = <<>>
            /\ lpc' = "idle" /\ Exit("Load", 1)
       ELSE LET f == Latest(Sorted(dir))
                recs == [r \in 1..total |-> <<f, r>>]  \* the rows of that file
            IN
            /\ records' = recs /\ batch_size' = B
            /\ IF total = 0
               THEN /\ llog' = <<Line("LOADING", total, B)>> \o LoadReport(0, total)
                    /\ lpc' = "idle" /\ Exit("Load", LoadStatus(0, total))
               ELSE /\ llog' = <<Line("LOADING", total, B)>>
                    /\ lpc' = "insert"
                    /\ proc' = [proc EXCEPT !["Load"] = "running"]
                    /\ UNCHANGED exitCode
    /\ UNCHANGED <<ovars, evars, fvars, nvars>>

\* the while loop is left (break): the for loop takes the next batch, or the
\* function prints its report and the script ends with status 0
NextBatch(ins, lines) ==
    /\ i' = i + batch_size
    /\ retries' = 0
    /\ IF i + batch_size < Len(records)
       THEN /\ llog' = llog \o lines
            /\ lpc' = "insert"
            /\ UNCHANGED pvars
       ELSE /\ llog' = llog \o lines \o LoadReport(ins, Len(records))
            /\ lpc' = "idle"
            /\ Exit("Load", LoadStatus(ins, Len(records)))

\* outcomes of supabase.table(TABLE_NAME).insert(batch).execute():
\*   "ok"            a response without an error
\*   "inline_error"  a response whose .error is set
\*   "exception"     the call raises
SinkOutcomes == {"ok", "inline_error", "exception"}

\* faulty variant: while retries <= 3
AgainOnceMore(r) == r <= MaxLoadRetries + 1

\* while retries <= 2
Again(r) == r <= MaxLoadRetries

\* one iteration of `while retries <= 2`: one insert(batch).execute()
InsertAttempt(outcome) ==
    LET total == Len(records)
        batch == Batch(records, i, batch_size)
        batch_number == BatchNumber(i, batch_size)
        end == Min(i + batch_size, total) IN
    /\ proc["Load"] = "running" /\ lpc = "insert"
    /\ Again(retries)
    /\ calls' = Append(calls, [batch |-> batch_number, rows |-> batch,
                               outcome |-> outcome])
    /\ CASE outcome = "ok" ->
              /\ inserted' = inserted + Len(batch)
              /\ NextBatch(inserted + Len(batch), <<Line("SUCCESS", i + 1, end)>>)
         [] outcome = "inline_error" ->
              /\ inserted' = inserted
              /\ NextBatch(inserted, <<Line("WARNING", batch_number, 0)>>)
         [] outcome = "exception" ->
              /\ inserted' = inserted
              /\ IF Again(retries + 1)
                 THEN /\ retries' = retries + 1
                      /\ llog' = llog \o <<Line("WARNING_EXC", batch_number, 0),
                                          Line("RETRY", batch_number, retries + 1)>>
                      /\ UNCHANGED <<lpc, i, pvars>>
                 ELSE NextBatch(inserted, <<Line("WARNING_EXC", batch_number, 0),
                                            Line("ERROR", batch_number, 0)>>)
    /\ UNCHANGED <<ovars, evars, fvars, env, staged, records, batch_size, nvars>>

\* `python load.py` from the shell
ShellLoad ==
    /\ proc["Load"] = "off"
    /\ proc' = [proc EXCEPT !["Load"] = "spawned"]
    /\ UNCHANGED <<ovars, exitCode, evars, fvars, lvars, nvars>>

NextLoad ==
    \/ ShellLoad
    \/ \E e \in Envs, dir \in StagedDirs, total \in StagedContents, B \in 1..MaxBatch :
          LoadBegin(e, dir, total, B)
    \/ \E o \in SinkOutcomes : InsertAttempt(o)

SpecLoad == Init /\ [][NextLoad]_vars

\* ------------------------------------------- load.py, the row normalisation
\* A cell or value is <<kind, n>>. In the staged file: <<"empty", 0>> a missing
\* field, <<"num", n>> the digits of n, <<"isotime", t>> an ISO timestamp,
\* <<"text", k>> any other text. In memory: NaN, NaT, PyNone,
\* <<"float", n>>, <<"Timestamp", t>>, <<"str_datetime", t>> the text
\* str(Timestamp) gives, StrNaT the three-letter text "NaT".
EmptyCell == <<"empty", 0>>
NaN == <<"nan", 0>>
NaT == <<"NaT", 0>>
StrNaT == <<"str_NaT", 0>>
PyNone == <<"None", 0>>

\* columns of the staged file: a timestamp, a pollutant, a category
Columns == {"time", "pm10", "AQI"}

CellsOf(c) ==
    {EmptyCell} \cup
    CASE c = "time" -> {<<"isotime", t>> : t \in 1..MaxValue} \cup {<<"text", 1>>}
      [] c = "pm10" -> {<<"num", n>> : n \in 1..MaxValue}
      [] c = "AQI"  -> {<<"text", k>> : k \in 1..MaxValue}

StagedRows == {row \in [Columns -> UNION {CellsOf(c) : c \in Columns}] :
                  \A c \in Columns : row[c] \in CellsOf(c)}

\* pd.read_csv on one cell
ReadCell(cell) ==
    CASE cell[1] = "empty" -> NaN
      [] cell[1] = "num"   -> <<"float", cell[2]>>
      [] OTHER             -> cell

\* pd.to_datetime(..., errors="coerce") on one value
ToDatetime(v) == IF v[1] = "isotime" THEN <<"Timestamp", v[2]>> ELSE NaT

\* .astype(str) on one datetime value
AsTypeStr(v) == IF v = NaT THEN StrNaT ELSE <<"str_datetime", v[2]>>

\* the columns mapping of df.rename
Rename(c) ==
    CASE c = "AQI"      -> "aqi_category"
      [] c = "severity" -> "severity_score"
      [] c = "risk"     -> "risk_flag"
      [] OTHER          -> c

RenameColumns(df) ==
    [d \in {Rename(c) : c \in DOMAIN df} |->
        df[CHOOSE c \in DOMAIN df : Rename(c) = d]]

\* pd.notnull on one value
NotNull(v) == v \notin {NaN, NaT, PyNone}

\* the dtype pd.read_csv infers for a column: digits and missing fields give
\* float64, text gives object
Dtype(d) == IF d = "pm10" THEN "float64" ELSE "object"

\* df.where(pd.notnull(df), None) on one value of column d. A float64 column
\* cannot hold None: the installed pandas either makes the column object
\* first (upcast) or puts NaN back
Where(v, d, upcast) ==
    IF NotNull(v) THEN v
    ELSE IF Dtype(d) = "float64" /\ ~upcast THEN NaN ELSE PyNone

\* _read_staged_csv
ReadStaged(row) ==
    /\ npc = "off"
    /\ csv' = row
    /\ frame' = [c \in Columns |->
                    IF c = "time" THEN AsTypeStr(ToDatetime(ReadCell(row[c])))
                    ELSE ReadCell(row[c])]
    /\ npc' = "read"
    /\ UNCHANGED <<ovars, pvars, evars, fvars, lvars>>

\* load_to_supabase from df.rename to df.where
Normalize(upcast) ==
    /\ npc = "read"
    /\ frame' = [d \in DOMAIN RenameColumns(frame) |->
                    Where(RenameColumns(frame)[d], d, upcast)]
    /\ npc' = "frame"
    /\ UNCHANGED <<ovars, pvars, evars, fvars, lvars, csv>>

\* df.to_dict(orient="records"): the values as they are in the frame
ToRecords ==
    /\ npc = "frame"
    /\ npc' = "records"
    /\ UNCHANGED <<ovars, pvars, evars, fvars, lvars, csv, frame>>

NextNormalize ==
    \/ \E row \in StagedRows : ReadStaged(row)
    \/ \E upcast \in BOOLEAN : Normalize(upcast)
    \/ ToRecords

SpecNormalize == Init /\ [][NextNormalize]_vars

\* ------------------------------------------------------- run_pipeline.py
Say(tag, s) == [tag |-> tag, stage |-> s]

\* transform.py and etl_analysis.py: run to their end with some status
OpaqueStage(s, code) ==
    /\ s \in {"Transform", "Analyze"}
    /\ proc[s] = "spawned"
    /\ Exit(s, code)
    /\ UNCHANGED <<ovars, evars, fvars, lvars, nvars>>

\* __main__ of run_pipeline.py up to the first subprocess.run
PipelineStart ==
    /\ opc = "off"
    /\ proc["Extract"] = "off"
    /\ opc' = "waiting" /\ ostage' = 1
    /\ invoked' = <<STAGES[1]>>
    /\ console' = <<Say("INFO", "pipeline"), Say("RUNNING", STAGES[1])>>
    /\ proc' = [proc EXCEPT ![STAGES[1]] = "spawned"]
    /\ runs' = runs + 1
    /\ UNCHANGED <<rcs, exitCode, evars, clock, files, lvars, nvars>>

\* faulty variant: the return code is not looked at
StageFailedIgnored(rc) == FALSE

\* if result.returncode != 0
StageFailed(rc) == rc # 0

\* subprocess.run returns: the rest of run_script, and __main__ up to the
\* next subprocess.run or to the end of the script
StageReturn ==
    LET s == STAGES[ostage]
        rc == exitCode[s] IN
    /\ opc = "waiting"
    /\ proc[s] = "exited"
    /\ rcs' = [rcs EXCEPT ![s] = rc]
    /\ IF StageFailed(rc)
       THEN /\ console' = console \o <<Say("STDOUT", s), Say("ERROR", s),
                                       Say("STDERR", s)>>
            /\ opc' = "Failed"
            /\ UNCHANGED <<ostage, invoked, pvars>>
       ELSE IF ostage < Len(STAGES)
       THEN /\ console' = console \o <<Say("STDOUT", s), Say("SUCCESS", s),
                                       Say("RUNNING", STAGES[ostage + 1])>>
            /\ ostage' = ostage + 1
            /\ invoked' = Append(invoked, STAGES[ostage + 1])
            /\ proc' = [proc EXCEPT ![STAGES[ostage + 1]] = "spawned"]
            /\ UNCHANGED <<opc, exitCode>>
       ELSE /\ console' = console \o <<Say("STDOUT", s), Say("SUCCESS", s),
                                       Say("COMPLETE", "pipeline")>>
            /\ opc' = "Done"
            /\ UNCHANGED <<ostage, invoked, pvars>>
    /\ IF s = "Extract" THEN Reaped ELSE UNCHANGED evars
    /\ UNCHANGED <<fvars, lvars, nvars>>

Next ==
    \/ PipelineStart
    \/ StageReturn
    \/ \E s \in {"Transform", "Analyze"}, code \in {0, 1} : OpaqueStage(s, code)
    \/ ExtractBegin
    \/ \E o \in Outcomes : FetchAttempt(o)
    \/ \E now \in Now : SaveOk(now)
    \/ \E now \in Now, at \in {"open", "dump"} : SaveFail(now, at)
    \/ \E e \in Envs, dir \in StagedDirs, total \in StagedContents, B \in 1..MaxBatch :
          LoadBegin(e, dir, total, B)
    \/ \E o \in SinkOutcomes : InsertAttempt(o)

Spec == Init /\ [][Next]_vars

\* ================================================================ load.py
Ceil(n, d) == (n + d - 1) \div d

NumBatches == IF batch_size = 0 THEN 0 ELSE Ceil(Len(records), batch_size)

\* the insert calls made for batch b, in order
CallsOf(b) == SelectSeq(calls, LAMBDA c : c.batch = b)

AllFailed(cs) == \A j \in 1..Len(cs) : cs[j].outcome # "ok"

RowSet(rows) == {rows[j] : j \in 1..Len(rows)}

\* rows of the batches the sink accepted
AcceptedRows == UNION {RowSet(calls[j].rows) : j \in {n \in 1..Len(calls) : calls[n].outcome = "ok"}}

\* rows of batch b as the loader submitted them
RowsOfBatch(b) == UNION {RowSet(calls[j].rows) : j \in {n \in 1..Len(calls) : calls[n].batch = b}}

\* the batches load.py reported as failed: its "[ERROR] Batch n failed" lines
FailedBatches == {llog[j].a : j \in {n \in 1..Len(llog) : llog[n].tag = "ERROR"}}

LoadFinished == proc["Load"] = "exited" /\ calls # <<>>

\* C1: every failed insert attempt (exception or inline error) that is not the
\* third attempt of its batch is followed by another attempt on the same batch
C1_RetryOnAnyError ==
    \A j \in 1..Len(calls) :
        LET b == calls[j].batch
            nth == Len(SelectSeq(SubSeq(calls, 1, j), LAMBDA c : c.batch = b)) IN
        (calls[j].outcome # "ok" /\ nth < 1 + MaxLoadRetries)
            => IF j < Len(calls)
               THEN calls[j + 1].batch = b
               ELSE proc["Load"] = "running" /\ lpc = "insert"
                    /\ BatchNumber(i, batch_size) = b

\* C2: when batch k failed on all 3 attempts and batch k+1 succeeded on its
\* first attempt, inserted excludes the rows of k and includes those of k+1,
\* and the batches reported as failed are exactly those whose 3 attempts failed
C2_FailedBatchIsolated ==
    LoadFinished =>
        \A k \in 1..NumBatches :
            (/\ Len(CallsOf(k)) = 1 + MaxLoadRetries
             /\ AllFailed(CallsOf(k))
             /\ CallsOf(k + 1) # <<>>
             /\ CallsOf(k + 1)[1].outcome = "ok")
            => /\ RowsOfBatch(k) \cap AcceptedRows = {}
               /\ RowsOfBatch(k + 1) \subseteq AcceptedRows
               /\ inserted = Cardinality(AcceptedRows)
               /\ k \in FailedBatches
               /\ FailedBatches = {b \in 1..NumBatches :
                                      /\ Len(CallsOf(b)) = 1 + MaxLoadRetries
                                      /\ AllFailed(CallsOf(b))}

RECURSIVE Flatten(_)
Flatten(cs) == IF cs = <<>> THEN <<>> ELSE cs[1].rows \o Flatten(Tail(cs))

NoRetry == \A j \in 1..Len(calls) : calls[j].outcome # "exception"

\* C6: without retries a load of N rows with batch size B makes ceil(N/B)
\* insert calls of at most B rows each, the last of N mod B rows (B if that is
\* 0), which together carry every row exactly once, in the original order
C6_BatchPartition ==
    (proc["Load"] = "exited" /\ batch_size > 0 /\ NoRetry) =>
        LET N == Len(records)
            B == batch_size IN
        /\ Len(calls) = Ceil(N, B)
        /\ \A j \in 1..Len(calls) : Len(calls[j].rows) <= B /\ calls[j].batch = j
        /\ \A j \in 1..Len(calls) - 1 : Len(calls[j].rows) = B
        /\ N > 0 => Len(calls[Len(calls)].rows) = (IF N % B = 0 THEN B ELSE N % B)
        /\ Flatten(calls) = records
        /\ AllFailed(calls) \/ inserted = Cardinality(AcceptedRows)
        /\ (\A j \in 1..Len(calls) : calls[j].outcome = "ok") => inserted = N

C6_Witness ==
    /\ proc["Load"] = "exited" /\ NoRetry
    /\ Len(records) = 3 /\ batch_size = 2
    /\ Len(calls) = 2 /\ Len(calls[2].rows) = 1
    /\ inserted = 3

\* ========================================================= run_pipeline.py
Later(s) == {t \in Stages : StageNo(t) > StageNo(s)}

Invoked == {invoked[j] : j \in 1..Len(invoked)}

\* C3: once a stage has exited non-zero no later stage is ever invoked, and
\* the orchestrator is Failed as soon as it has seen that return code
C3_HaltOnFailure ==
    \A s \in Stages :
        exitCode[s] \notin {NoCode, 0} =>
            /\ \A t \in Later(s) : t \notin Invoked /\ proc[t] = "off"
            /\ rcs[s] # NoCode => opc = "Failed" /\ rcs[s] = exitCode[s]

C3_Witness ==
    /\ exitCode["Transform"] = 1 /\ rcs["Transform"] = 1
    /\ opc = "Failed"
    /\ invoked = <<"Extract", "Transform">>

\* C8: a load that reported a failed batch but inserted some rows ends with
\* status 0, and the orchestrator, once it has seen that status, runs Analyze
C8_PartialLoadContinues ==
    (proc["Load"] = "exited" /\ FailedBatches # {} /\ inserted > 0) =>
        /\ exitCode["Load"] = 0
        /\ rcs["Load"] # NoCode => "Analyze" \in Invoked /\ proc["Analyze"] # "off"

C8_Witness ==
    /\ FailedBatches # {} /\ inserted > 0
    /\ rcs["Load"] = 0
    /\ invoked = <<"Extract", "Transform", "Load", "Analyze">>

\* C9: a load of N > 0 rows in which no batch was inserted does not give the
\* orchestrator the signal of a fully successful load (status 0, Analyze runs)
C9_NothingInsertedSignalled ==
    (rcs["Load"] # NoCode /\ Len(records) > 0 /\ calls # <<>> /\ inserted = 0) =>
        ~(rcs["Load"] = 0 /\ "Analyze" \in Invoked)

\* ============================================================= extract.py
\* the call fetch_air_quality_data(city k) has returned
FetchDone(k) ==
    /\ hist[CITIES[k]] # <<>>
    /\ k < cityIdx \/ (k = cityIdx /\ epc # "request")

AllErrors(h) == \A j \in 1..Len(h) : h[j] = "error"

SavedCities == {saved_files[j][1] : j \in 1..Len(saved_files)}

\* C4: a city all of whose requests fail gets exactly MAX_RETRIES requests
\* and is not saved; the run then goes on with the next city (or ends with
\* status 0 after the last one) and every city starts its own attempt count
C4_FailureIsolated ==
    /\ \A k \in 1..NumCities :
          (FetchDone(k) /\ AllErrors(hist[CITIES[k]])) =>
              /\ Len(hist[CITIES[k]]) = MAX_RETRIES
              /\ Lower[CITIES[k]] \notin SavedCities
              /\ IF k < NumCities THEN cityIdx > k
                 ELSE proc["Extract"] = "exited" /\ exitCode["Extract"] = 0
    /\ (proc["Extract"] = "running" /\ epc = "request") =>
          /\ attempt = Len(hist[CITIES[cityIdx]]) + 1
          /\ attempt <= MAX_RETRIES
          /\ AllErrors(hist[CITIES[cityIdx]])

C4_Witness ==
    /\ proc["Extract"] = "exited" /\ exitCode["Extract"] = 0
    /\ hist["Delhi"] = <<"error", "error", "error">>
    /\ hist["Mumbai"] = <<"error", "ok">>
    /\ SavedCities = {"mumbai"}

\* C5: a payload without hourly data ends the fetch of its city: it is the
\* last request made for that city, whatever the attempt number, and the only
\* one when it answers the first request
C5_EmptyNotRetried ==
    \A k \in 1..NumCities :
        LET h == hist[CITIES[k]] IN
        \A j \in 1..Len(h) :
            h[j] = "empty" =>
                /\ j = Len(h)
                /\ FetchDone(k)
                /\ Lower[CITIES[k]] \notin SavedCities
                /\ sleeps[CITIES[k]] = j - 1

C5_Witness ==
    /\ hist["Delhi"] = <<"empty">>
    /\ hist["Mumbai"] = <<"error", "empty">>
    /\ proc["Extract"] = "exited"

\* C7: a write error for city c leaves c out of saved_files, keeps the cities
\* saved before c, and the cities configured after c are still fetched
C7_WriteErrorConfined ==
    (proc["Extract"] = "exited" /\ werr # 0) =>
        /\ Lower[CITIES[werr]] \notin SavedCities
        /\ \A k \in 1..NumCities : k > werr => hist[CITIES[k]] # <<>>

\* C10: a raw artifact, once persisted, keeps its content for ever: no later
\* persist, of this run or of another, writes to its path
C10_NeverOverwrites ==
    [][\A p \in RawPaths :
          files[p] \notin {NoFile, Truncated} => files'[p] = files[p]]_vars

\* ================================================== run_pipeline.py, again
IsPrefix(q, r) == Len(q) <= Len(r) /\ \A j \in 1..Len(q) : q[j] = r[j]

Printed(tag, s) == \E j \in 1..Len(console) : console[j] = Say(tag, s)

\* C11: the scripts are invoked in the order Extract, Transform, Load,
\* Analyze, each at most once; a script is invoked only after its predecessor
\* has exited with status 0; at most one script is alive at a time; and the run
\* is Done (and has printed its completion message) exactly when all four
\* return codes the orchestrator has seen are 0
C11_LinearStages ==
    /\ IsPrefix(invoked, STAGES)
    /\ \A k \in 2..Len(invoked) :
          /\ proc[STAGES[k - 1]] = "exited"
          /\ exitCode[STAGES[k - 1]] = 0
          /\ rcs[STAGES[k - 1]] = 0
    /\ \A s \in Stages : proc[s] # "off" <=> s \in Invoked
    /\ Cardinality({s \in Stages : proc[s] \in {"spawned", "running"}}) <= 1
    /\ opc = "Done" <=> \A s \in Stages : rcs[s] = 0
    /\ opc = "Done" <=> Printed("COMPLETE", "pipeline")

C11_Witness ==
    /\ opc = "Done"
    /\ invoked = STAGES
    /\ \A s \in Stages : exitCode[s] = 0

\* a precondition of the load is missing: a credential is unset, data/staged
\* has no matching file, or the staged file holds no rows
PreconditionMissing == ~env.url \/ ~env.key \/ staged = <<>> \/ records = <<>>

\* C12: a load that lacks a precondition exits non-zero without an insert
\* call, and Analyze is not invoked
C12_MissingPreconditionFatal ==
    (proc["Load"] = "exited" /\ PreconditionMissing) =>
        /\ exitCode["Load"] # 0
        /\ calls = <<>>
        /\ "Analyze" \notin Invoked

\* the staged dataset a submitted row was read from
FileOf(row) == row[1]

\* C13: every row submitted in a load run comes from one staged file, the one
\* with the greatest name among the files listed when the run started
C13_LatestStagedOnly ==
    \A j \in 1..Len(calls) : \A r \in RowSet(calls[j].rows) :
        /\ FileOf(r) \in RowSet(staged)
        /\ \A k \in 1..Len(staged) : staged[k] <= FileOf(r)

C13_Witness ==
    /\ Len(staged) >= 2
    /\ Len(calls) >= 2
    /\ proc["Load"] = "exited"

\* the value that stands for a non-null staged cell in the insert payload
Submitted(cell) ==
    CASE cell[1] = "num"     -> <<"float", cell[2]>>
      [] cell[1] = "isotime" -> <<"str_datetime", cell[2]>>
      [] OTHER               -> cell

\* C14: in the records handed to the sink every field that is missing in the
\* staged row is None, and every other field carries the staged value
C14_NullsSubmittedAsNull ==
    npc = "records" =>
        \A c \in Columns :
            frame[Rename(c)] = IF csv[c] = EmptyCell THEN PyNone
                               ELSE Submitted(csv[c])

\* ============================================================= extract.py
\* C15: a city's requests stop at the first one that is not a transport error
\* or after MAX_RETRIES of them; the payload of a successful request is what
\* the fetch returns; one wait separates two consecutive requests and none
\* follows the last
C15_RetryThenReturn ==
    \A k \in 1..NumCities :
        LET c == CITIES[k]
            h == hist[c] IN
        /\ Len(h) <= MAX_RETRIES
        /\ \A j \in 1..(Len(h) - 1) : h[j] = "error"
        /\ FetchDone(k) =>
              /\ sleeps[c] = Len(h) - 1
              /\ AllErrors(h) => Len(h) = MAX_RETRIES
        /\ (k = cityIdx /\ epc = "request") =>
              /\ attempt = Len(h) + 1
              /\ sleeps[c] = Len(h)
        /\ (k = cityIdx /\ epc = "save") =>
              /\ h[Len(h)] = "ok"
              /\ data = Payload(c, runs)

C15_Witness ==
    /\ \E k \in 1..NumCities :
          /\ FetchDone(k)
          /\ hist[CITIES[k]] = <<"error", "error", "ok">>
          /\ sleeps[CITIES[k]] = 2
    /\ \E k \in 1..NumCities :
          /\ FetchDone(k)
          /\ hist[CITIES[k]] = <<"error", "error", "error">>
          /\ sleeps[CITIES[k]] = 2

\* ================================================ run_pipeline.py, the output
\* C16: once the orchestrator has the return code of a stage, it has printed
\* what the stage wrote to its standard output and to its error stream
C16_OutputSurfaced ==
    \A s \in Stages :
        rcs[s] # NoCode => Printed("STDOUT", s) /\ Printed("STDERR", s)

\* ======================================================= the two retry loops
\* requests that fetch_air_quality_data and the cities after it can still make
FetchMeasure ==
    CASE epc = "request" ->
            (NumCities - cityIdx) * (MAX_RETRIES + 1) + (MAX_RETRIES + 1 - attempt) + 1
      [] epc = "save" -> (NumCities - cityIdx) * (MAX_RETRIES + 1) + 1
      [] OTHER -> 0

\* insert calls that the for loop of load_to_supabase can still make
LoadMeasure ==
    IF lpc = "insert"
    THEN (MaxLoadRetries + 1) * (NumBatches - BatchNumber(i, batch_size))
         + (MaxLoadRetries + 1 - retries)
    ELSE 0

C17_Bounds ==
    /\ \A c \in Cities : Len(hist[c]) <= MAX_RETRIES
    /\ epc = "request" =>
          /\ proc["Extract"] = "running"
          /\ cityIdx \in 1..NumCities
          /\ attempt \in 1..MAX_RETRIES
    /\ \A j \in 1..(Len(calls) - 1) : calls[j].batch <= calls[j + 1].batch
    /\ \A b \in 1..NumBatches : Len(CallsOf(b)) <= MaxLoadRetries + 1
    /\ Len(calls) <= (MaxLoadRetries + 1) * NumBatches
    /\ lpc = "insert" =>
          /\ proc["Load"] = "running"
          /\ i < Len(records)
          /\ retries \in 0..MaxLoadRetries
          /\ \A b \in 1..(BatchNumber(i, batch_size) - 1) : Len(CallsOf(b)) >= 1
    /\ (proc["Load"] = "exited" /\ records # <<>>) =>
          /\ lpc = "idle"
          /\ \A b \in 1..NumBatches : Len(CallsOf(b)) >= 1
          /\ llog[Len(llog)] = Line("STATS", inserted, Len(records))
    /\ FetchMeasure >= 0 /\ LoadMeasure >= 0

\* a request or an insert call leaves fewer of them to come
C17_Progress ==
    /\ (\E c \in Cities : Len(hist'[c]) > Len(hist[c])) => FetchMeasure' < FetchMeasure
    /\ Len(calls') > Len(calls) => LoadMeasure' < LoadMeasure

\* C17: both retry loops end after a bounded number of attempts: at most
\* MAX_RETRIES requests per city; every batch submitted at least once and at
\* most three times, in increasing order, until the load report is printed;
\* while a loop runs its next attempt is possible and each attempt lowers the
\* number of attempts that can follow
C17_BoundedRetries == []C17_Bounds /\ [][C17_Progress]_vars

C17_Witness ==
    /\ proc["Load"] = "exited"
    /\ NumBatches >= 2
    /\ \E b \in 1..NumBatches :
          /\ Len(CallsOf(b)) = MaxLoadRetries + 1
          /\ AllFailed(CallsOf(b))
    /\ \E b \in 1..NumBatches : Len(CallsOf(b)) = 1

\* ===================================================== load.py, the counter
RECURSIVE RowsAccepted(_)
\* rows of the calls that returned without an exception and without an error
RowsAccepted(cs) ==
    IF cs = <<>> THEN 0
    ELSE (IF cs[1].outcome = "ok" THEN Len(cs[1].rows) ELSE 0)
         + RowsAccepted(Tail(cs))

\* C18: inserted stays within 0..total and is the size of the batches that
\* had an attempt accepted; an accepted batch is never submitted again
C18_InsertedCountsAccepted ==
    /\ inserted \in 0..Len(records)
    /\ inserted = RowsAccepted(calls)
    /\ inserted = Cardinality(AcceptedRows)
    /\ \A j \in 1..Len(calls) : \A k \in (j + 1)..Len(calls) :
          calls[j].outcome = "ok" => calls[k].batch > calls[j].batch

C18_Witness ==
    /\ proc["Load"] = "exited"
    /\ 0 < inserted /\ inserted < Len(records)
    /\ \E j \in 2..Len(calls) :
          /\ calls[j].outcome = "ok"
          /\ calls[j - 1].outcome = "exception"
          /\ calls[j - 1].batch = calls[j].batch

\* ================================================ extract.py under the
\* orchestrator
NothingFetched ==
    \A c \in Cities : hist[c] # <<>> /\ hist[c][Len(hist[c])] # "ok"

\* C19: extract.py ends with status 0 whenever it reaches its last log line,
\* also when no city was fetched and the line is the warning; the
\* orchestrator then invokes Transform
C19_ExtractSucceedsEmpty ==
    /\ (proc["Extract"] = "exited" /\ NothingFetched) =>
          /\ elog = "warning"
          /\ exitCode["Extract"] = 0
    /\ (proc["Extract"] = "exited" /\ elog # "none") => exitCode["Extract"] = 0
    /\ elog = "warning" => \A p \in RawPaths : files[p] = NoFile
    /\ (rcs["Extract"] # NoCode /\ elog # "none") =>
          /\ rcs["Extract"] = 0
          /\ "Transform" \in Invoked

C19_Witness ==
    /\ elog = "warning"
    /\ rcs["Extract"] = 0
    /\ "Transform" \in Invoked
    /\ \A p \in RawPaths : files[p] = NoFile

====
